---- MODULE Spec2Model ----
(***************************************************************************)
(* Model of the Beurer daylight lamp BLE driver (src/beurer.py).           *)
(*                                                                         *)
(* The driver is a set of asyncio coroutines.  A coroutine runs atomically *)
(* from one suspension point (an await of asyncio.sleep or of a transport  *)
(* operation) to the next.  The model keeps one call stack per task (the   *)
(* command task and the notification-handler task); every model step runs  *)
(* the code of one task from the point where it was suspended to its next  *)
(* suspension point.  Transport results, unsolicited disconnects and       *)
(* notifications are chosen by the environment.                            *)
(***************************************************************************)
EXTENDS Integers, Sequences, FiniteSets, TLC

(***************************************************************************)
(* Bounds of the exploration.                                              *)
(***************************************************************************)
\* commands the host shell issues in one run over an unreliable link
MaxCommands == 2
\* commands the host shell issues in one run over a healthy link
MaxNominalCommands == 3
\* environment events in one run: transport faults and notifications
MaxEvents == 1
\* notifications handled in a run that only handles notifications
MaxNotifications == 2
\* longest payload handed to sendPacket
MaxPayloadLen == 10
\* commands in a run that replays a stored color brightness
MaxReplayCommands == 4

(***************************************************************************)
(* Program constants.                                                      *)
(***************************************************************************)
\* Python's None for the optional integers (_brightness, _color_brightness)
None == -1
\* Python's None for _write_uuid / _read_uuid
NoUuid == "None"
WRITE_CHARACTERISTIC_UUIDS == {"8b00ace7"}
READ_CHARACTERISTIC_UUIDS == {"0734594a"}
COLOR_MODE_RGB == "rgb"
COLOR_MODE_WHITE == "white"
supported_effects ==
    <<"Off", "Random", "Rainbow", "Rainbow Slow", "Fusion", "Pulse", "Wave",
      "Chill", "Action", "Forest", "Summer">>

(***************************************************************************)
(* Protocol codec.                                                         *)
(***************************************************************************)
\* Python's a ^ b on bytes
Xor(a, b) ==
    LET bit(x, i) == (x \div (2 ^ i)) % 2
        term(i) == (2 ^ i) * ((bit(a, i) + bit(b, i)) % 2)
    IN  term(0) + term(1) + term(2) + term(3) + term(4) + term(5) + term(6) + term(7)

RECURSIVE makeChecksum(_, _)
makeChecksum(b, bArr) ==
    IF Len(bArr) = 0 THEN b
    ELSE makeChecksum(Xor(b, Head(bArr)), Tail(bArr))

\* lines 223-225 with the checksum left at its seed, no payload byte folded in
PacketDataUnfolded(message) ==
    LET length == Len(message)
    IN  <<254, 239, 10, length + 7, 171, 170, length + 2>> \o message
            \o <<length + 2, 85, 13, 10>>

\* the bytearray sendPacket builds around a payload
PacketData(message) ==
    LET length == Len(message)
        checksum == makeChecksum(length + 2, message)
    IN  <<254, 239, 10, length + 7, 171, 170, length + 2>> \o message
            \o <<checksum, 85, 13, 10>>

\* max(0, min(100, int(v / 255 * 100)))
Percent(v) ==
    LET p == (v * 100) \div 255
    IN  IF p < 0 THEN 0 ELSE IF p > 100 THEN 100 ELSE p

\* int(res[10]*255/100) if res[10] > 0 else 0
FromPercent(p) == IF p > 0 THEN (p * 255) \div 100 ELSE 0

\* lines 200-210 with the ValueError of list.index left to the caller's
\* arithmetic: an unknown name gets the index past the catalog
find_effect_position_unguarded(name) ==
    LET eff == IF name = "None" THEN "Off" ELSE name
    IN  IF \E i \in 1..Len(supported_effects) : supported_effects[i] = eff
        THEN (CHOOSE i \in 1..Len(supported_effects) : supported_effects[i] = eff) - 1
        ELSE Len(supported_effects)

find_effect_position(name) ==
    LET eff == IF name = "None" THEN "Off" ELSE name
    IN  IF \E i \in 1..Len(supported_effects) : supported_effects[i] = eff
        THEN (CHOOSE i \in 1..Len(supported_effects) : supported_effects[i] = eff) - 1
        ELSE 0

(***************************************************************************)
(* State.  The driver's fields keep their names without the underscore.    *)
(***************************************************************************)
VARIABLES
    is_on, light_on, color_on,      \* _is_on, _light_on (white), _color_on
    rgb_color, brightness, color_brightness, effect, mode,
    write_uuid, read_uuid,          \* bound characteristics
    is_connected,                   \* BleakClient.is_connected
    notifying,                      \* a start_notify subscription is active
    services,                       \* characteristics the open session offers
    stack,                          \* call stack of each task
    fired,                          \* change callbacks fired in the last step
    raised,                         \* an exception left a handler in the last step
    wfail,                          \* what _write left after a failed write in
                                    \* the last step
    cret,                           \* what connect returned in the last step
    tracing,                        \* whether the run records a trace
    trace,                          \* transport events of the current command
    call,                           \* the current command and the state it met
    phase,                          \* "idle", "running" or "done"
    hist,                           \* the calls made so far, when the run keeps them
    ncmd, nevents                   \* commands issued, environment events used

vars ==
    <<is_on, light_on, color_on, rgb_color, brightness, color_brightness,
      effect, mode, write_uuid, read_uuid, is_connected, notifying, services,
      stack, fired, raised, wfail, cret, tracing, trace, call, phase, hist, ncmd,
      nevents>>

Tasks == {"cmd", "hnd"}

\* no history is kept / the history of a run that keeps one, at its start
NoHist == [on |-> FALSE, calls |-> <<>>]
EmptyHist == [on |-> TRUE, calls |-> <<>>]

NoWriteError ==
    [seen |-> FALSE, is_connected |-> FALSE, is_on |-> FALSE,
     light_on |-> FALSE, color_on |-> FALSE]

NoConnectReturn ==
    [seen |-> FALSE, ok |-> FALSE, is_connected |-> FALSE,
     notifying |-> FALSE, write_uuid |-> NoUuid, read_uuid |-> NoUuid]

\* the state as one record, as the coroutines read and write it; ret is the
\* value returned by the last call or await
St ==
    [is_on |-> is_on, light_on |-> light_on, color_on |-> color_on,
     rgb_color |-> rgb_color, brightness |-> brightness,
     color_brightness |-> color_brightness, effect |-> effect, mode |-> mode,
     write_uuid |-> write_uuid, read_uuid |-> read_uuid,
     is_connected |-> is_connected, notifying |-> notifying,
     services |-> services, stack |-> stack, ret |-> FALSE, fired |-> 0,
     raised |-> FALSE, wfail |-> NoWriteError, cret |-> NoConnectReturn,
     trace |-> trace,
     logging |-> tracing /\ phase = "running", hist |-> hist]

(***************************************************************************)
(* Call stack: a frame is a coroutine activation.  pc is the source line   *)
(* the frame continues at; wait is what the frame is suspended on.         *)
(***************************************************************************)
Frame(fn, arg, name, ftn) ==
    [fn |-> fn, pc |-> "start", wait |-> "", arg |-> arg, name |-> name, ftn |-> ftn]

Top(s, t) == s.stack[t][Len(s.stack[t])]

Goto(s, t, pc) ==
    [s EXCEPT !.stack[t][Len(s.stack[t])].pc = pc]

\* await asyncio.sleep / a transport operation, continuing at pc
Await(s, t, what, pc) ==
    [s EXCEPT !.stack[t][Len(s.stack[t])].pc = pc,
              !.stack[t][Len(s.stack[t])].wait = what]

\* await callee(...), continuing at pc
Call(s, t, pc, callee) ==
    [s EXCEPT !.stack[t] = Append([@ EXCEPT ![Len(@)].pc = pc], callee)]

Return(s, t) ==
    [s EXCEPT !.stack[t] = SubSeq(@, 1, Len(@) - 1)]

Log(s, ev, pkt) ==
    IF s.logging THEN [s EXCEPT !.trace = Append(@, [ev |-> ev, pkt |-> pkt])]
    ELSE s

AllOff(s) ==
    [s EXCEPT !.is_on = FALSE, !.light_on = FALSE, !.color_on = FALSE]

(***************************************************************************)
(* The coroutines.  Each operator executes the frame f on top of task t's  *)
(* stack from its pc to the next call, await or return.                    *)
(***************************************************************************)
NoArg == <<>>
F0(fn) == Frame(fn, NoArg, "", FALSE)

disconnected_callback(s) ==
    [AllOff(s) EXCEPT !.write_uuid = NoUuid, !.read_uuid = NoUuid, !.fired = 1]

disconnect(s, t, f) ==
    CASE f.pc = "start" ->
            IF s.is_connected
            THEN IF s.read_uuid # NoUuid
                 THEN Await(s, t, "stop_notify", "L554")
                 ELSE Goto(s, t, "L554")
            ELSE Goto(s, t, "L559")
      [] f.pc = "L554" -> Await(s, t, "disconnect", "L559")
      [] f.pc = "L559" -> Return(AllOff(s), t)

\* a _write that logs the write error and leaves the session as it is
write_failed_kept(s, t) == Goto(s, t, "L181")

\* the except clauses of _write: disconnect on any write error
write_failed(s, t) == Call(s, t, "L181", F0("disconnect"))

\* what the caller of _write finds after a write error
AfterWriteError(s) ==
    [seen |-> TRUE, is_connected |-> s.is_connected, is_on |-> s.is_on,
     light_on |-> s.light_on, color_on |-> s.color_on]

\* the test of lines 158 and 218 never noticing / noticing a closed session
DisconnectedUnnoticed(s) == FALSE

Disconnected(s) == ~s.is_connected

_write(s, t, f) ==
    CASE f.pc = "start" ->
            IF Disconnected(s)
            THEN Call(s, t, "L160", F0("connect"))
            ELSE Goto(s, t, "L164")
      [] f.pc = "L160" -> IF ~s.ret THEN Return(s, t) ELSE Goto(s, t, "L164")
      [] f.pc = "L164" ->
            IF s.write_uuid = NoUuid THEN Return(s, t)
            ELSE Await(s, t, "write", "L170")
      [] f.pc = "L170" -> IF s.ret THEN Return(s, t) ELSE write_failed(s, t)
      [] f.pc = "L181" -> Return([s EXCEPT !.wfail = AfterWriteError(s)], t)

sendPacket(s, t, f) ==
    CASE f.pc = "start" ->
            IF Disconnected(s)
            THEN Call(s, t, "L220", F0("connect"))
            ELSE Goto(s, t, "L224")
      [] f.pc = "L220" -> IF ~s.ret THEN Return(s, t) ELSE Goto(s, t, "L224")
      [] f.pc = "L224" ->
            Call(s, t, "ret", Frame("_write", PacketData(f.arg), "", FALSE))
      [] f.pc = "ret" -> Return(s, t)

Send(s, t, pc, message) == Call(s, t, pc, Frame("sendPacket", message, "", FALSE))

triggerStatus(s, t, f) ==
    CASE f.pc = "start" -> Send(s, t, "L361", <<48, 1>>)
      [] f.pc = "L361" -> Await(s, t, "sleep", "L362")
      [] f.pc = "L362" -> Send(s, t, "ret", <<48, 2>>)
      [] f.pc = "ret" -> Return(s, t)

\* lines 480-493 of connect: bind the characteristics the session offers
BindCharacteristics(s) ==
    [s EXCEPT
        !.write_uuid = IF \E u \in s.services : u \in WRITE_CHARACTERISTIC_UUIDS
                       THEN CHOOSE u \in s.services : u \in WRITE_CHARACTERISTIC_UUIDS
                       ELSE NoUuid,
        !.read_uuid = IF \E u \in s.services : u \in READ_CHARACTERISTIC_UUIDS
                      THEN CHOOSE u \in s.services : u \in READ_CHARACTERISTIC_UUIDS
                      ELSE NoUuid]

\* the test of line 489 left out / as it is: a characteristic was not found
CharacteristicsUnchecked(b) == FALSE

CharacteristicsMissing(b) == b.read_uuid = NoUuid \/ b.write_uuid = NoUuid

\* the except branch of connect leaving the session as it is / tearing it
\* down (line 517)
connect_failed_kept(s, t) == Goto(s, t, "L518")

connect_failed(s, t) == Call(s, t, "L518", F0("disconnect"))

\* connect returns ok: the value and the connection it leaves to its caller
ConnectReturn(s, ok) ==
    [s EXCEPT !.ret = ok,
              !.cret = [seen |-> TRUE, ok |-> ok,
                        is_connected |-> s.is_connected,
                        notifying |-> s.notifying,
                        write_uuid |-> s.write_uuid,
                        read_uuid |-> s.read_uuid]]

connect(s, t, f) ==
    CASE f.pc = "start" ->
            IF ~s.is_connected THEN Await(s, t, "connect", "L476")
            ELSE Goto(s, t, "L495")
      [] f.pc = "L476" ->
            IF ~s.ret THEN Goto(s, t, "L517") ELSE Await(s, t, "sleep", "L480")
      [] f.pc = "L480" ->
            LET b == BindCharacteristics(s)
            IN  IF CharacteristicsMissing(b)
                THEN Call(b, t, "L492", F0("disconnect"))
                ELSE Goto(b, t, "L495")
      [] f.pc = "L492" -> Return(ConnectReturn(s, FALSE), t)
      [] f.pc = "L495" -> Await(s, t, "sleep", "L497")
      [] f.pc = "L497" -> Await(s, t, "start_notify", "L498")
      [] f.pc = "L498" ->
            IF ~s.ret THEN Goto(s, t, "L517")
            ELSE Call(s, t, "L501", F0("triggerStatus"))
      [] f.pc = "L501" -> Await(s, t, "sleep", "L502")
      [] f.pc = "L502" -> Return(ConnectReturn(s, TRUE), t)
      [] f.pc = "L517" -> connect_failed(s, t)
      [] f.pc = "L518" -> Return(ConnectReturn(s, FALSE), t)

\* line 314: the target mode is White
WhiteNeverSelected(s) == FALSE
WhiteSelected(s) == s.mode = COLOR_MODE_WHITE

turn_on(s, t, f) ==
    CASE f.pc = "start" ->
            IF ~s.is_connected
            THEN Call(s, t, "L310", F0("connect"))
            ELSE Goto(s, t, "L314")
      [] f.pc = "L310" -> IF ~s.ret THEN Return(s, t) ELSE Goto(s, t, "L314")
      [] f.pc = "L314" ->
            IF WhiteSelected(s)
            THEN Send(s, t, "L316", <<55, 1>>)
            ELSE Send([s EXCEPT !.mode = COLOR_MODE_RGB], t, "L321", <<55, 2>>)
      [] f.pc = "L316" ->
            Goto([s EXCEPT !.light_on = TRUE, !.color_on = FALSE], t, "L343")
      [] f.pc = "L321" ->
            LET s1 == [s EXCEPT !.color_on = TRUE, !.light_on = FALSE]
            IN  IF ~s1.is_on THEN Await(s1, t, "sleep", "L329")
                ELSE Goto(s1, t, "L343")
      [] f.pc = "L329" ->
            Call(s, t, "L332", Frame("set_effect", NoArg, s.effect, TRUE))
      [] f.pc = "L332" -> Await(s, t, "sleep", "L334")
      [] f.pc = "L334" ->
            LET rgb_to_restore ==
                    IF s.rgb_color # <<0, 0, 0>> THEN s.rgb_color
                    ELSE <<255, 255, 255>>
            IN  Call(s, t, "L337", Frame("set_color", rgb_to_restore, "", TRUE))
      [] f.pc = "L337" -> Await(s, t, "sleep", "L339")
      [] f.pc = "L339" ->
            Call(s, t, "L343",
                 Frame("set_color_brightness", <<s.color_brightness>>, "", TRUE))
      [] f.pc = "L343" -> Await([s EXCEPT !.is_on = TRUE], t, "sleep", "L345")
      [] f.pc = "L345" -> Call(s, t, "ret", F0("triggerStatus"))
      [] f.pc = "ret" -> Return(s, t)

turn_off(s, t, f) ==
    CASE f.pc = "start" -> Send(s, t, "L350", <<53, 1>>)
      [] f.pc = "L350" -> Await(s, t, "sleep", "L351")
      [] f.pc = "L351" -> Send(s, t, "L352", <<53, 2>>)
      [] f.pc = "L352" -> Await(AllOff(s), t, "sleep", "L356")
      [] f.pc = "L356" -> Call(s, t, "ret", F0("triggerStatus"))
      [] f.pc = "ret" -> Return(s, t)

\* a set_color that sends the color without storing it as the target
set_color_unstored(s, t, f) ==
    CASE f.pc = "start" ->
            LET s1 == [s EXCEPT !.mode = COLOR_MODE_RGB]
            IN  IF ~f.ftn /\ (~s1.is_on \/ ~s1.color_on)
                THEN Call(s1, t, "ret", F0("turn_on"))
                ELSE Send(s1, t, "L240", <<50>> \o f.arg)
      [] f.pc = "L240" -> Await(s, t, "sleep", "L241")
      [] f.pc = "L241" -> Call(s, t, "ret", F0("triggerStatus"))
      [] f.pc = "ret" -> Return(s, t)

set_color(s, t, f) ==
    CASE f.pc = "start" ->
            LET s1 == [s EXCEPT !.mode = COLOR_MODE_RGB, !.rgb_color = f.arg]
            IN  IF ~f.ftn /\ (~s1.is_on \/ ~s1.color_on)
                THEN Call(s1, t, "ret", F0("turn_on"))
                ELSE Send(s1, t, "L240", <<50>> \o f.arg)
      [] f.pc = "L240" -> Await(s, t, "sleep", "L241")
      [] f.pc = "L241" -> Call(s, t, "ret", F0("triggerStatus"))
      [] f.pc = "ret" -> Return(s, t)

set_color_brightness(s, t, f) ==
    CASE f.pc = "start" ->
            LET actual == IF f.arg[1] = None THEN 255 ELSE f.arg[1]
                s1 == [s EXCEPT !.mode = COLOR_MODE_RGB, !.color_brightness = actual]
            IN  IF ~f.ftn /\ (~s1.is_on \/ ~s1.color_on)
                THEN Call(s1, t, "ret", F0("turn_on"))
                ELSE Send(s1, t, "L259", <<49, 2, Percent(actual)>>)
      [] f.pc = "L259" -> Await(s, t, "sleep", "L260")
      [] f.pc = "L260" -> Call(s, t, "ret", F0("triggerStatus"))
      [] f.pc = "ret" -> Return(s, t)

set_white(s, t, f) ==
    CASE f.pc = "start" ->
            LET actual == IF f.arg[1] = None THEN 255 ELSE f.arg[1]
                s1 == [s EXCEPT !.mode = COLOR_MODE_WHITE, !.brightness = actual]
            IN  IF ~f.ftn /\ (~s1.is_on \/ ~s1.light_on)
                THEN Call(s1, t, "ret", F0("turn_on"))
                ELSE Send(s1, t, "L278", <<49, 1, Percent(actual)>>)
      [] f.pc = "L278" -> Await(s, t, "sleep", "L279")
      [] f.pc = "L279" -> Call(s, t, "ret", Frame("set_effect", NoArg, "Off", TRUE))
      [] f.pc = "ret" -> Return(s, t)

set_effect(s, t, f) ==
    CASE f.pc = "start" ->
            LET actual == IF f.name = "None" THEN "Off" ELSE f.name
                s1 == [s EXCEPT !.mode = COLOR_MODE_RGB, !.effect = actual]
            IN  IF ~f.ftn /\ (~s1.is_on \/ ~s1.color_on)
                THEN Call(s1, t, "ret", F0("turn_on"))
                ELSE Send(s1, t, "L297", <<52, find_effect_position(actual)>>)
      [] f.pc = "L297" -> Await(s, t, "sleep", "L298")
      [] f.pc = "L298" -> Call(s, t, "ret", F0("triggerStatus"))
      [] f.pc = "ret" -> Return(s, t)

update(s, t, f) ==
    CASE f.pc = "start" ->
            IF ~s.is_connected
            THEN Call(s, t, "L525", F0("connect"))
            ELSE Goto(s, t, "L535")
      [] f.pc = "L525" -> IF ~s.ret THEN Return(s, t) ELSE Goto(s, t, "L535")
      [] f.pc = "L535" -> Call(s, t, "ret", F0("triggerStatus"))
      [] f.pc = "ret" -> Return(s, t)

\* Python's res[k] (0-based) of a notification that is long enough
Byte(res, k) == res[k + 1]

\* line 374: the notification cannot carry a reply version
TooShortUnchecked(res) == FALSE
TooShort(res) == Len(res) < 9

\* the notification would be indexed beyond its end (IndexError): res[8],
\* then res[9], and for a status that is on res[10] (white) or res[16] (color)
IndexError(res) ==
    IF Len(res) < 9 THEN TRUE
    ELSE /\ Byte(res, 8) \in {1, 2}
         /\ \/ Len(res) < 10
            \/ /\ Byte(res, 9) = 1
               /\ Len(res) < (IF Byte(res, 8) = 1 THEN 11 ELSE 17)

\* lines 435-441 with the change callback fired whatever the outcome
FinishNotificationAlways(s, trigger_ha_update) ==
    [s EXCEPT !.is_on = s.light_on \/ s.color_on, !.fired = 1]

\* lines 435-441: recompute _is_on, fire the change callback if anything changed
FinishNotification(s, trigger_ha_update) ==
    LET new_is_on == s.light_on \/ s.color_on
        trigger == trigger_ha_update \/ s.is_on # new_is_on
    IN  [s EXCEPT !.is_on = new_is_on, !.fired = IF trigger THEN 1 ELSE 0]

WhiteStatus(s, res) ==
    LET new_light_on == Byte(res, 9) = 1
        new_brightness == IF new_light_on THEN FromPercent(Byte(res, 10)) ELSE None
        trigger == s.light_on # new_light_on \/ s.brightness # new_brightness
    IN  FinishNotification(
            [s EXCEPT !.light_on = new_light_on, !.brightness = new_brightness,
                      !.mode = IF new_light_on THEN COLOR_MODE_WHITE ELSE @],
            trigger)

ColorStatus(s, res) ==
    LET new_color_on == Byte(res, 9) = 1
        new_effect ==
            IF new_color_on
            THEN IF Byte(res, 16) < Len(supported_effects)
                 THEN supported_effects[Byte(res, 16) + 1] ELSE "Off"
            ELSE s.effect
        new_color_brightness ==
            IF new_color_on THEN FromPercent(Byte(res, 10)) ELSE None
        new_rgb_color ==
            IF new_color_on THEN <<Byte(res, 13), Byte(res, 14), Byte(res, 15)>>
            ELSE s.rgb_color
        trigger ==
            \/ s.color_on # new_color_on
            \/ s.effect # new_effect
            \/ s.color_brightness # new_color_brightness
            \/ s.rgb_color # new_rgb_color
    IN  FinishNotification(
            [s EXCEPT !.color_on = new_color_on, !.effect = new_effect,
                      !.color_brightness = new_color_brightness,
                      !.rgb_color = new_rgb_color,
                      !.mode = IF new_color_on THEN COLOR_MODE_RGB ELSE @],
            trigger)

OffStatus(s) ==
    FinishNotification(AllOff(s), s.is_on \/ s.light_on \/ s.color_on)

\* lines 427-430: the lamp shuts down, the driver disconnects
ShutdownMerged(s, t) == Return(OffStatus(s), t)
ShutdownStatus(s, t) == Call(s, t, "ret", F0("disconnect"))

notification_handler(s, t, f) ==
    LET res == f.arg
        s0 == [s EXCEPT !.fired = 0, !.raised = FALSE]
    IN  CASE f.pc = "start" ->
                IF TooShort(res) THEN Return(s0, t)
                ELSE IF IndexError(res) THEN Return([s0 EXCEPT !.raised = TRUE], t)
                ELSE IF Byte(res, 8) = 1 THEN Return(WhiteStatus(s0, res), t)
                ELSE IF Byte(res, 8) = 2 THEN Return(ColorStatus(s0, res), t)
                ELSE IF Byte(res, 8) = 255 THEN Return(OffStatus(s0), t)
                ELSE IF Byte(res, 8) = 0 THEN ShutdownStatus(s0, t)
                ELSE Return(s0, t)
          [] f.pc = "ret" -> Return(s, t)

(***************************************************************************)
(* The scheduler: run task t until it is suspended or has finished.        *)
(***************************************************************************)
Step(s, t) ==
    LET f == Top(s, t)
    IN  CASE f.fn = "turn_on" -> turn_on(s, t, f)
          [] f.fn = "turn_off" -> turn_off(s, t, f)
          [] f.fn = "set_color" -> set_color(s, t, f)
          [] f.fn = "set_color_brightness" -> set_color_brightness(s, t, f)
          [] f.fn = "set_white" -> set_white(s, t, f)
          [] f.fn = "set_effect" -> set_effect(s, t, f)
          [] f.fn = "triggerStatus" -> triggerStatus(s, t, f)
          [] f.fn = "update" -> update(s, t, f)
          [] f.fn = "sendPacket" -> sendPacket(s, t, f)
          [] f.fn = "_write" -> _write(s, t, f)
          [] f.fn = "connect" -> connect(s, t, f)
          [] f.fn = "disconnect" -> disconnect(s, t, f)
          [] f.fn = "notification_handler" -> notification_handler(s, t, f)

Suspended(s, t) == Len(s.stack[t]) > 0 /\ Top(s, t).wait # ""

RECURSIVE Run(_, _)
Run(s, t) ==
    IF Len(s.stack[t]) = 0 \/ Suspended(s, t) THEN s ELSE Run(Step(s, t), t)

\* the awaited operation of task t has completed with result r
Resume(s, t, r) ==
    Run([s EXCEPT !.stack[t][Len(s.stack[t])].wait = "", !.ret = r], t)

(***************************************************************************)
(* Inputs.                                                                 *)
(***************************************************************************)
RgbArgs == {<<0, 0, 0>>, <<10, 20, 30>>}
LevelArgs == {None, 127}
EffectArgs == {"Rainbow", "Nonexistent"}

Header == <<0, 0, 0, 0, 0, 0, 0, 0>>
WhiteOn50 == Header \o <<1, 1, 50>>
WhiteOff == Header \o <<1, 0, 0>>
ColorOn == Header \o <<2, 1, 50, 0, 0, 10, 20, 30, 2>>
ColorOff == Header \o <<2, 0, 0, 0, 0, 0, 0, 0, 0>>
AllOffNote == Header \o <<255>>
Shutdown == Header \o <<0>>
\* the replies to a status query
StatusNotifs == {WhiteOn50, WhiteOff, ColorOn, ColorOff, AllOffNote}
\* the notifications of a run over an unreliable link
Notifs == {WhiteOn50, ColorOn, ColorOff, AllOffNote, Shutdown}

\* payloads handed to sendPacket: every length, two byte patterns each
PayloadSeeds == {85, 255}
Payloads ==
    {[i \in 1..n |-> (i * k) % 256] : n \in 1..MaxPayloadLen, k \in PayloadSeeds}

\* what the lamp may send to notification_handler: too short to carry a
\* version, status replies cut short at every field the handler indexes,
\* whole status replies, shutdown and an unknown version
WhiteOn(p) == Header \o <<1, 1, p>>
Percents == {0, 1, 50, 100, 255}
ShortNotifs == {<<>>, <<1, 1, 50>>, Header}
CutNotifs ==
    {Header \o <<1>>, Header \o <<1, 1>>, Header \o <<2>>,
     Header \o <<2, 1, 50, 0, 0, 10, 20, 30>>}
HandlerNotifs ==
    ShortNotifs \cup CutNotifs \cup {WhiteOn(p) : p \in Percents}
        \cup {WhiteOff, ColorOn, ColorOff, Header \o <<2, 0>>, AllOffNote,
              Shutdown, Header \o <<7>>,
              Header \o <<2, 1, 255, 0, 0, 10, 20, 30, 200>>}

\* what the two characteristics of the lamp look like in a session
AllServices == WRITE_CHARACTERISTIC_UUIDS \cup READ_CHARACTERISTIC_UUIDS
ServiceSets == {AllServices, WRITE_CHARACTERISTIC_UUIDS, READ_CHARACTERISTIC_UUIDS}

(***************************************************************************)
(* Initial state: BeurerInstance.__init__, nothing connected.              *)
(***************************************************************************)
Snapshot(s) ==
    [is_on |-> s.is_on, light_on |-> s.light_on, color_on |-> s.color_on,
     mode |-> s.mode, is_connected |-> s.is_connected, effect |-> s.effect,
     rgb_color |-> s.rgb_color, brightness |-> s.brightness,
     color_brightness |-> s.color_brightness]

NoStacks == [t \in Tasks |-> <<>>]

InitState ==
    [is_on |-> FALSE, light_on |-> FALSE, color_on |-> FALSE,
     rgb_color |-> <<0, 0, 0>>, brightness |-> None, color_brightness |-> None,
     effect |-> "Off", mode |-> COLOR_MODE_WHITE,
     write_uuid |-> NoUuid, read_uuid |-> NoUuid,
     is_connected |-> FALSE, notifying |-> FALSE, services |-> {},
     stack |-> NoStacks, ret |-> FALSE, fired |-> 0, raised |-> FALSE,
     wfail |-> NoWriteError, cret |-> NoConnectReturn,
     trace |-> <<>>, logging |-> FALSE, hist |-> NoHist]

NoCall == [op |-> "none", arg |-> NoArg, name |-> "", pre |-> Snapshot(InitState)]

\* the variables take the values of the record s
Apply(s) ==
    /\ is_on' = s.is_on
    /\ light_on' = s.light_on
    /\ color_on' = s.color_on
    /\ rgb_color' = s.rgb_color
    /\ brightness' = s.brightness
    /\ color_brightness' = s.color_brightness
    /\ effect' = s.effect
    /\ mode' = s.mode
    /\ write_uuid' = s.write_uuid
    /\ read_uuid' = s.read_uuid
    /\ is_connected' = s.is_connected
    /\ notifying' = s.notifying
    /\ services' = s.services
    /\ stack' = s.stack
    /\ fired' = s.fired
    /\ raised' = s.raised
    /\ wfail' = s.wfail
    /\ cret' = s.cret
    /\ hist' = s.hist

Constructed ==
    /\ is_on = InitState.is_on
    /\ light_on = InitState.light_on
    /\ color_on = InitState.color_on
    /\ rgb_color = InitState.rgb_color
    /\ brightness = InitState.brightness
    /\ color_brightness = InitState.color_brightness
    /\ effect = InitState.effect
    /\ mode = InitState.mode
    /\ write_uuid = InitState.write_uuid
    /\ read_uuid = InitState.read_uuid
    /\ is_connected = InitState.is_connected
    /\ notifying = InitState.notifying
    /\ services = InitState.services
    /\ stack = InitState.stack
    /\ fired = InitState.fired
    /\ raised = InitState.raised
    /\ wfail = InitState.wfail
    /\ cret = InitState.cret
    /\ trace = <<>>
    /\ call = NoCall
    /\ phase = "idle"
    /\ ncmd = 0
    /\ nevents = 0

Init == Constructed /\ tracing = TRUE /\ hist = NoHist

\* the same program, run without recording the trace
InitLean == Constructed /\ tracing = FALSE /\ hist = NoHist

\* the same program, the run keeping the history of its calls
InitReplay == Constructed /\ tracing = TRUE /\ hist = EmptyHist

\* the on-flags a connected driver holds between two commands
FlagStates ==
    {<<FALSE, FALSE, FALSE>>, <<TRUE, FALSE, FALSE>>, <<TRUE, FALSE, TRUE>>,
     <<TRUE, TRUE, FALSE>>, <<TRUE, TRUE, TRUE>>}

\* a connected, subscribed driver between two commands, its DeviceState any
\* of the values the commands and notifications leave; the run keeps a history
InitHandler ==
    /\ \E fl \in FlagStates :
            is_on = fl[1] /\ light_on = fl[2] /\ color_on = fl[3]
    /\ rgb_color \in RgbArgs
    /\ brightness \in LevelArgs
    /\ color_brightness \in LevelArgs
    /\ effect \in {"Off", "Rainbow"}
    /\ mode \in {COLOR_MODE_WHITE, COLOR_MODE_RGB}
    /\ write_uuid \in WRITE_CHARACTERISTIC_UUIDS
    /\ read_uuid \in READ_CHARACTERISTIC_UUIDS
    /\ is_connected = TRUE
    /\ notifying = TRUE
    /\ services = AllServices
    /\ stack = NoStacks
    /\ fired = 0
    /\ raised = FALSE
    /\ wfail = NoWriteError
    /\ cret = NoConnectReturn
    /\ tracing = FALSE
    /\ trace = <<>>
    /\ call = NoCall
    /\ phase = "idle"
    /\ hist = EmptyHist
    /\ ncmd = 0
    /\ nevents = 0

(***************************************************************************)
(* Bookkeeping shared by the actions.  The trace and the call describe the *)
(* command in flight; they are kept in the state that completes it and     *)
(* dropped by the next step.                                               *)
(***************************************************************************)
\* a step taken by the driver or the environment, leading to record s
Advance(s) ==
    /\ Apply(s)
    /\ tracing' = tracing
    /\ IF phase = "running"
       THEN /\ trace' = s.trace
            /\ call' = call
            /\ phase' = IF Len(s.stack["cmd"]) = 0 THEN "done" ELSE "running"
       ELSE /\ trace' = <<>>
            /\ call' = NoCall
            /\ phase' = "idle"

\* the call is added to the history, when the run keeps one
Record(s, op, arg, name) ==
    IF s.hist.on
    THEN [s EXCEPT !.hist.calls =
                Append(@, [op |-> op, arg |-> arg, name |-> name,
                           pre |-> Snapshot(s)])]
    ELSE s

\* the environment spends one of its events when spend holds
Spend(spend) ==
    /\ spend => nevents < MaxEvents
    /\ nevents' = IF spend THEN nevents + 1 ELSE nevents
    /\ ncmd' = ncmd

\* the host shell calls a public coroutine; commands are serialized
Command(op, arg, name, limit) ==
    /\ Len(stack["cmd"]) = 0
    /\ ncmd < limit
    /\ LET s0 == [Record(St, op, arg, name) EXCEPT
                            !.stack["cmd"] = <<Frame(op, arg, name, FALSE)>>,
                            !.trace = <<>>, !.logging = tracing]
           s1 == Run(s0, "cmd")
       IN  /\ Apply(s1)
           /\ trace' = s1.trace
           /\ phase' = IF Len(s1.stack["cmd"]) = 0 THEN "done" ELSE "running"
    /\ call' = IF tracing
               THEN [op |-> op, arg |-> arg, name |-> name, pre |-> Snapshot(St)]
               ELSE NoCall
    /\ ncmd' = ncmd + 1
    /\ nevents' = nevents
    /\ tracing' = tracing

TurnOn(limit) == Command("turn_on", NoArg, "", limit)
TurnOff(limit) == Command("turn_off", NoArg, "", limit)
SetColor(limit) == \E rgb \in RgbArgs : Command("set_color", rgb, "", limit)
SetColorBrightness(limit) ==
    \E b \in LevelArgs : Command("set_color_brightness", <<b>>, "", limit)
SetWhite(limit) == \E b \in LevelArgs : Command("set_white", <<b>>, "", limit)
SetEffect(limit) == \E e \in EffectArgs : Command("set_effect", NoArg, e, limit)
RequestStatus(limit) == Command("triggerStatus", NoArg, "", limit)
Update(limit) == Command("update", NoArg, "", limit)

(***************************************************************************)
(* Completion of awaited operations.                                       *)
(***************************************************************************)
Waiting(t, what) == Len(stack[t]) > 0 /\ Top(St, t).wait = what

SleepDone ==
    \E t \in Tasks :
        /\ Waiting(t, "sleep")
        /\ Advance(Resume(St, t, TRUE))
        /\ Spend(FALSE)

\* write_gatt_char returns
WriteOk ==
    \E t \in Tasks :
        /\ Waiting(t, "write")
        /\ is_connected
        /\ Advance(Resume(Log(St, "write", Top(St, t).arg), t, TRUE))
        /\ Spend(FALSE)

\* write_gatt_char raises: always on a closed session, else a transport fault
WriteFail ==
    \E t \in Tasks :
        /\ Waiting(t, "write")
        /\ Advance(Resume(Log(St, "write_fail", Top(St, t).arg), t, FALSE))
        /\ Spend(is_connected)

\* BleakClient.connect returns; the session offers the characteristics chars
ConnectOk(chars) ==
    \E t \in Tasks :
        /\ Waiting(t, "connect")
        /\ Advance(Resume(Log([St EXCEPT !.is_connected = TRUE, !.services = chars],
                              "connect_ok", NoArg), t, TRUE))
        /\ Spend(chars # AllServices)

\* BleakClient.connect raises (timeout, device not found)
ConnectFail ==
    \E t \in Tasks :
        /\ Waiting(t, "connect")
        /\ Advance(Resume(Log(St, "connect_fail", NoArg), t, FALSE))
        /\ Spend(TRUE)

\* the lamp is out of reach: the transport's connect raises, as often as
\* it is tried
ConnectRefused ==
    \E t \in Tasks :
        /\ Waiting(t, "connect")
        /\ Advance(Resume(Log(St, "connect_fail", NoArg), t, FALSE))
        /\ Spend(FALSE)

StartNotifyOk ==
    \E t \in Tasks :
        /\ Waiting(t, "start_notify")
        /\ is_connected /\ read_uuid # NoUuid
        /\ Advance(Resume(Log([St EXCEPT !.notifying = TRUE], "subscribe", NoArg),
                          t, TRUE))
        /\ Spend(FALSE)

StartNotifyFail ==
    \E t \in Tasks :
        /\ Waiting(t, "start_notify")
        /\ Advance(Resume(Log(St, "subscribe_fail", NoArg), t, FALSE))
        /\ Spend(is_connected /\ read_uuid # NoUuid)

\* stop_notify returns or raises: disconnect() goes on either way
StopNotifyDone ==
    \E t \in Tasks :
        /\ Waiting(t, "stop_notify")
        /\ Advance(Resume([St EXCEPT !.notifying = FALSE], t, TRUE))
        /\ Spend(FALSE)

SessionClosed(s) ==
    [s EXCEPT !.is_connected = FALSE, !.notifying = FALSE, !.services = {}]

\* BleakClient.disconnect returns; the backend may run the disconnected
\* callback for a disconnect the client asked for
DisconnectDone ==
    \E t \in Tasks, cb \in BOOLEAN :
        /\ Waiting(t, "disconnect")
        /\ cb => is_connected
        /\ LET s1 == Log(SessionClosed(St), "closed", NoArg)
               s2 == IF cb THEN disconnected_callback(s1) ELSE s1
           IN  Advance(Resume(s2, t, TRUE))
        /\ Spend(FALSE)

(***************************************************************************)
(* Events of the environment.                                              *)
(***************************************************************************)
\* the link drops: the transport runs disconnected_callback
Drop ==
    /\ is_connected
    /\ Advance(disconnected_callback(Log(SessionClosed(St), "drop", NoArg)))
    /\ Spend(TRUE)

\* the lamp notifies: bleak runs notification_handler as a task of its own,
\* which gets to run while the command task is idle or sleeps
Deliver(res) ==
    /\ is_connected /\ notifying
    /\ Len(stack["hnd"]) = 0
    /\ IF Len(stack["cmd"]) = 0 THEN TRUE ELSE Top(St, "cmd").wait = "sleep"
    /\ LET s0 == Record(Log(St, "notify", res), "notification_handler", res, "")
           s1 == [s0 EXCEPT !.stack["hnd"] =
                                <<Frame("notification_handler", res, "", FALSE)>>]
       IN  Advance(Run(s1, "hnd"))

Notify(res) == Deliver(res) /\ Spend(TRUE)

\* a notification while no command is in flight
IdleNotify(res) == Len(stack["cmd"]) = 0 /\ Notify(res)

\* a notification in a run that only handles notifications
Handle(res) ==
    /\ Len(stack["cmd"]) = 0
    /\ nevents < MaxNotifications
    /\ Deliver(res)
    /\ nevents' = nevents + 1
    /\ ncmd' = ncmd

\* sendPacket called with a payload of its caller's choice
SendPacket(limit) ==
    \E message \in Payloads : Command("sendPacket", message, "", limit)

\* the calls of a run that switches the lamp off and on again
ReplayLevels == {127}
ReplayNotifs == {ColorOff, WhiteOff}
ReplayCalls(limit) ==
    \/ TurnOn(limit) \/ TurnOff(limit)
    \/ \E b \in ReplayLevels : Command("set_color_brightness", <<b>>, "", limit)

HostCalls(limit) ==
    \/ TurnOn(limit) \/ TurnOff(limit) \/ SetColor(limit)
    \/ SetColorBrightness(limit) \/ SetWhite(limit) \/ SetEffect(limit)
    \/ RequestStatus(limit) \/ Update(limit)

\* the driver over an unreliable link
Next ==
    \/ HostCalls(MaxCommands)
    \/ SleepDone \/ WriteOk \/ WriteFail
    \/ (\E chars \in ServiceSets : ConnectOk(chars)) \/ ConnectFail
    \/ StartNotifyOk \/ StartNotifyFail \/ StopNotifyDone \/ DisconnectDone
    \/ Drop \/ (\E res \in Notifs : Notify(res))

\* switching and polling over an unreliable link, the run recorded
LinkCalls(limit) == TurnOn(limit) \/ TurnOff(limit) \/ Update(limit)

NextLink ==
    \/ LinkCalls(MaxCommands)
    \/ SleepDone \/ WriteOk \/ WriteFail
    \/ (\E chars \in ServiceSets : ConnectOk(chars)) \/ ConnectFail
    \/ StartNotifyOk \/ StartNotifyFail \/ StopNotifyDone \/ DisconnectDone
    \/ Drop \/ (\E res \in Notifs : Notify(res))

\* the driver over an unreliable link to a lamp that may be out of reach
NextOutage ==
    \/ HostCalls(MaxCommands)
    \/ SleepDone \/ WriteOk \/ WriteFail
    \/ ConnectOk(AllServices) \/ ConnectRefused
    \/ StartNotifyOk \/ StopNotifyDone \/ DisconnectDone
    \/ Drop

\* the driver over a healthy link, notified only between commands
NextNominal ==
    \/ HostCalls(MaxNominalCommands)
    \/ SleepDone \/ WriteOk \/ ConnectOk(AllServices)
    \/ StartNotifyOk
    \/ (\E res \in StatusNotifs : IdleNotify(res))

\* the notification handler alone, on a connected driver
NextHandler ==
    \/ (\E res \in HandlerNotifs : Handle(res))
    \/ StopNotifyDone \/ DisconnectDone

\* sendPacket alone, over a healthy link
NextCodec ==
    \/ SendPacket(MaxCommands)
    \/ SleepDone \/ WriteOk \/ ConnectOk(AllServices) \/ StartNotifyOk

\* switching off and on over a healthy link, the lamp reporting off between
\* commands
NextReplay ==
    \/ ReplayCalls(MaxReplayCommands)
    \/ SleepDone \/ WriteOk \/ ConnectOk(AllServices) \/ StartNotifyOk
    \/ (\E res \in ReplayNotifs : IdleNotify(res))

Spec == Init /\ [][Next]_vars

SpecHandler == InitHandler /\ [][NextHandler]_vars

SpecCodec == Init /\ [][NextCodec]_vars

SpecReplay == InitReplay /\ [][NextReplay]_vars

SpecLean == InitLean /\ [][Next]_vars

SpecLink == Init /\ [][NextLink]_vars

SpecOutage == InitLean /\ [][NextOutage]_vars

SpecNominal == Init /\ [][NextNominal]_vars

(***************************************************************************)
(* Reading the trace of a command.                                         *)
(***************************************************************************)
\* the payload sendPacket framed into a packet
Payload(pkt) == SubSeq(pkt, 8, Len(pkt) - 4)

\* the trace positions at which the payload was written to the lamp
WritesOf(payload) ==
    {i \in DOMAIN trace : trace[i].ev = "write" /\ Payload(trace[i].pkt) = payload}

\* the trace positions of the events named in evs
EventsOf(evs) == {i \in DOMAIN trace : trace[i].ev \in evs}

\* the command op has just completed
Completed(op) == phase = "done" /\ call.op = op

\* the transport did everything it was asked during the command
HealthyLink ==
    EventsOf({"connect_fail", "write_fail", "subscribe_fail", "drop", "closed"}) = {}

PreFullyOff == ~call.pre.is_on /\ ~call.pre.light_on /\ ~call.pre.color_on

PreOnInColor == call.pre.is_on /\ call.pre.color_on

PreOnInWhite == call.pre.is_on /\ call.pre.light_on

\* a level argument, absent meaning full
Level(arg) == IF arg[1] = None THEN 255 ELSE arg[1]

\* the color TurnOn's restore path sends for a stored color
Restored(rgb) == IF rgb = <<0, 0, 0>> THEN <<255, 255, 255>> ELSE rgb

(***************************************************************************)
(* C1: after any sequence of commands has completed, whatever the          *)
(* transport did, power_on = (white_on or color_on).                       *)
(***************************************************************************)
C1_ModeInvariant == phase = "done" => (is_on <=> (light_on \/ color_on))

(***************************************************************************)
(* C2: SetColor(rgb) on a lamp that is fully off in White mode writes the  *)
(* color mode-select, the stored effect, the requested color and the color *)
(* brightness, in this order, and ends with mode Color, color_on, the      *)
(* requested rgb stored and power_on.                                      *)
(***************************************************************************)
\* the four packets are written in this order, the color packet carrying rgb
RestoreOrder(rgb) ==
    \E i \in WritesOf(<<55, 2>>) :
    \E j \in WritesOf(<<52, find_effect_position(call.pre.effect)>>) :
    \E k \in WritesOf(<<50>> \o rgb) :
    \E l \in WritesOf(<<49, 2, Percent(Level(<<call.pre.color_brightness>>))>>) :
        i < j /\ j < k /\ k < l

C2_Case ==
    Completed("set_color") /\ PreFullyOff /\ call.pre.mode = COLOR_MODE_WHITE

\* C2 as stated: the color packet carries exactly the requested rgb, and the
\* requested rgb is what DeviceState holds when the call completes
C2_SetColorFromOff_Original ==
    C2_Case =>
        /\ RestoreOrder(call.arg)
        /\ mode = COLOR_MODE_RGB /\ color_on /\ is_on
        /\ rgb_color = call.arg

\* C2 amended: the color sent and stored is the requested one, or white
\* (255,255,255) when the requested one is the zero triple
C2_SetColorFromOff ==
    C2_Case =>
        /\ RestoreOrder(Restored(call.arg))
        /\ mode = COLOR_MODE_RGB /\ color_on /\ is_on
        /\ rgb_color = Restored(call.arg)

\* a SetColor(10,20,30) from fully off in White mode completed, its color sent
C2_Witness ==
    /\ C2_Case
    /\ call.arg = <<10, 20, 30>>
    /\ WritesOf(<<50, 10, 20, 30>>) # {}
    /\ rgb_color = <<10, 20, 30>>

(***************************************************************************)
(* C3: SetColor, SetColorBrightness or SetEffect called while the lamp is  *)
(* not on in Color mode (also when it is on in White mode) writes the      *)
(* packet carrying the just-updated target value exactly once, over a      *)
(* healthy connection.                                                     *)
(***************************************************************************)
TargetPacket ==
    CASE call.op = "set_color" -> <<50>> \o Restored(call.arg)
      [] call.op = "set_color_brightness" -> <<49, 2, Percent(Level(call.arg))>>
      [] call.op = "set_effect" -> <<52, find_effect_position(call.name)>>

C3_DelegatedWritesOnce ==
    ( /\ phase = "done"
      /\ call.op \in {"set_color", "set_color_brightness", "set_effect"}
      /\ ~PreOnInColor
      /\ HealthyLink )
    => Cardinality(WritesOf(TargetPacket)) = 1

(***************************************************************************)
(* C4: SetWhite(intensity) called while the lamp is not on in White mode   *)
(* writes the white-intensity packet for the requested intensity, over a   *)
(* healthy connection.                                                     *)
(***************************************************************************)
C4_DelegatedWhiteIntensity ==
    (Completed("set_white") /\ ~PreOnInWhite /\ HealthyLink)
    => WritesOf(<<49, 1, Percent(Level(call.arg))>>) # {}

(***************************************************************************)
(* C5: whenever a SetWhite call completes with no notification processed   *)
(* during it, mode = White.                                                *)
(***************************************************************************)
C5_SetWhiteSetsWhiteMode ==
    (Completed("set_white") /\ EventsOf({"notify"}) = {})
    => mode = COLOR_MODE_WHITE

(***************************************************************************)
(* C6: TurnOff called while disconnected makes no connect attempt, writes  *)
(* no packet and sets power_on = white_on = color_on = false.              *)
(***************************************************************************)
C6_TurnOffStaysDisconnected ==
    (Completed("turn_off") /\ ~call.pre.is_connected)
    => /\ EventsOf({"connect_ok", "connect_fail", "write", "write_fail"}) = {}
       /\ ~is_on /\ ~light_on /\ ~color_on

(***************************************************************************)
(* C7: once a connect attempt made for a command has failed, no packet is  *)
(* written during the remainder of that command.                           *)
(***************************************************************************)
C7_FailedConnectAborts ==
    \A i \in EventsOf({"connect_fail"}) :
        \A j \in EventsOf({"write"}) : j < i

(***************************************************************************)
(* C8: after a write fails inside a command, that command makes no further *)
(* connect attempt and writes no further packet.                           *)
(***************************************************************************)
C8_WriteFailureIsTerminal ==
    \A i \in EventsOf({"write_fail"}) :
        \A j \in EventsOf({"connect_ok", "connect_fail", "write", "write_fail"}) :
            j <= i

(***************************************************************************)
(* C9: whenever a characteristic write raises, the transport session is    *)
(* closed and power_on, white_on and color_on are false when _write hands  *)
(* control back to the command.                                            *)
(***************************************************************************)
C9_WriteFailureDisconnects ==
    wfail.seen =>
        /\ ~wfail.is_connected
        /\ ~wfail.is_on /\ ~wfail.light_on /\ ~wfail.color_on

\* a write raised inside a command that is still running
C9_Witness == wfail.seen /\ Len(stack["cmd"]) > 0

(***************************************************************************)
(* C10: no notification is merged between the start and the completion of  *)
(* a command, so the value a command stored is the value it sends: every   *)
(* color-brightness packet of a SetColorBrightness call over a healthy     *)
(* link carries the level the call stored.                                 *)
(***************************************************************************)
C10_CommandSendsWhatItStored ==
    /\ phase = "running" => EventsOf({"notify"}) = {}
    /\ (Completed("set_color_brightness") /\ HealthyLink) =>
            \A i \in EventsOf({"write"}) :
                LET p == Payload(trace[i].pkt)
                IN  (p[1] = 49 /\ p[2] = 2) => p[3] = Percent(Level(call.arg))

(***************************************************************************)
(* Reading the history of a run that keeps one.                            *)
(***************************************************************************)
NCalls == Len(hist.calls)

LastCall == hist.calls[NCalls]

\* notification_handler has just returned from the last notification
Handled ==
    /\ hist.on /\ NCalls > 0
    /\ LastCall.op = "notification_handler"
    /\ stack = NoStacks

\* the same notification was handled twice in a row, the second time just now
HandledTwice ==
    /\ Handled /\ NCalls > 1
    /\ hist.calls[NCalls - 1].op = "notification_handler"
    /\ hist.calls[NCalls - 1].arg = LastCall.arg

\* DeviceState and the connection are what they were when the last call began
Untouched == Snapshot(St) = LastCall.pre

(***************************************************************************)
(* C13: a notification with reply_version 0 (shutdown) tears the           *)
(* connection down instead of merging state: afterwards the session is     *)
(* closed, power_on is false, and brightness, rgb, effect and mode are     *)
(* unchanged.                                                              *)
(***************************************************************************)
C13_Case ==
    Handled /\ Len(LastCall.arg) >= 9 /\ Byte(LastCall.arg, 8) = 0

C13_ShutdownTearsDown ==
    C13_Case =>
        /\ ~is_connected /\ ~notifying
        /\ ~is_on
        /\ brightness = LastCall.pre.brightness
        /\ color_brightness = LastCall.pre.color_brightness
        /\ rgb_color = LastCall.pre.rgb_color
        /\ effect = LastCall.pre.effect
        /\ mode = LastCall.pre.mode

\* a shutdown notification reached a lamp that was on, and the session is closed
C13_Witness == C13_Case /\ LastCall.pre.is_on /\ ~is_connected

(***************************************************************************)
(* C14: handling the same notification twice in a row fires the change     *)
(* callback at most on the first handling, never on the second, and the    *)
(* second handling leaves DeviceState unchanged.                           *)
(***************************************************************************)
C14_ReconciliationIdempotent ==
    HandledTwice => fired = 0 /\ Untouched

\* a color status was handled twice; the first handling changed DeviceState
C14_Witness ==
    /\ HandledTwice
    /\ LastCall.arg = ColorOn
    /\ hist.calls[NCalls - 1].pre # LastCall.pre

(***************************************************************************)
(* C15: a notification shorter than 9 bytes is treated as malformed: no    *)
(* byte at index 8 or beyond is read, DeviceState and the connection state *)
(* are unchanged, and the change callback is not fired.                    *)
(***************************************************************************)
C15_Case == Handled /\ Len(LastCall.arg) < 9

C15_ShortNotificationIgnored ==
    C15_Case =>
        /\ ~raised
        /\ fired = 0
        /\ Untouched
        /\ notifying /\ write_uuid # NoUuid /\ read_uuid # NoUuid

\* an 8-byte notification reached a lamp that was on
C15_Witness == C15_Case /\ LastCall.arg = Header /\ LastCall.pre.is_on

(***************************************************************************)
(* C16: for a notification of 9 bytes or more and any reply_version,       *)
(* notification_handler returns normally, and a notification that cannot   *)
(* be decoded leaves DeviceState unchanged.                                *)
(***************************************************************************)
\* a status reply cut short of a field the handler reads, or an unknown version
Undecodable(res) ==
    IndexError(res) \/ Byte(res, 8) \notin {0, 1, 2, 255}

C16_NoErrorCrossesBoundary ==
    (Handled /\ Len(LastCall.arg) >= 9) =>
        /\ ~raised
        /\ Undecodable(LastCall.arg) => Untouched

(***************************************************************************)
(* C17: a white status (reply_version 1) with on-flag 1 and percent byte p *)
(* in 0..100 sets white_on and sets white_brightness to p*255/100 rounded  *)
(* to the nearest integer (p = 50 gives 128).                              *)
(***************************************************************************)
\* p*255/100 rounded to the nearest integer, halves up
RoundFromPercent(p) == (p * 255 + 50) \div 100

C17_WhiteBrightnessRounded ==
    ( /\ Handled
      /\ Len(LastCall.arg) >= 11
      /\ Byte(LastCall.arg, 8) = 1 /\ Byte(LastCall.arg, 9) = 1
      /\ Byte(LastCall.arg, 10) \in 0..100 )
    => light_on /\ brightness = RoundFromPercent(Byte(LastCall.arg, 10))

(***************************************************************************)
(* C18: for every level v in 0..255 the percent byte written by            *)
(* SetColorBrightness (0x31,0x02,pct) and by SetWhite (0x31,0x01,pct),     *)
(* when sent directly, is v/255*100 rounded to the nearest integer and     *)
(* clamped to 0..100.                                                      *)
(***************************************************************************)
\* v/255*100 rounded to the nearest integer (halves up), clamped to 0..100
RoundPercent(v) ==
    LET p == (v * 200 + 255) \div 510
    IN  IF p < 0 THEN 0 ELSE IF p > 100 THEN 100 ELSE p

C18_DirectPercentRounded ==
    /\ (Completed("set_color_brightness") /\ PreOnInColor /\ HealthyLink)
        => WritesOf(<<49, 2, RoundPercent(Level(call.arg))>>) # {}
    /\ (Completed("set_white") /\ PreOnInWhite /\ HealthyLink)
        => WritesOf(<<49, 1, RoundPercent(Level(call.arg))>>) # {}

(***************************************************************************)
(* C20: SetEffect with a name that is not in the effect catalog does not   *)
(* fail: the effect packet written for it, directly or in TurnOn's restore *)
(* sequence, carries catalog index 0 ("Off").                              *)
(***************************************************************************)
InCatalog(name) ==
    \E i \in 1..Len(supported_effects) : supported_effects[i] = name

C20_Case ==
    Completed("set_effect") /\ ~InCatalog(call.name) /\ HealthyLink

C20_UnknownEffectIsOff ==
    C20_Case =>
        /\ \A i \in EventsOf({"write"}) :
              LET p == Payload(trace[i].pkt)
              IN  p[1] = 52 => p[2] = 0
        /\ (PreOnInColor \/ ~call.pre.is_on) => WritesOf(<<52, 0>>) # {}
        /\ effect = call.name

\* SetEffect("Nonexistent") was sent directly to a lamp on in Color mode
C20_Witness ==
    C20_Case /\ PreOnInColor /\ WritesOf(<<52, 0>>) # {}

\* SetEffect("Nonexistent") on a lamp that was off went through the restore
C20_WitnessRestore ==
    C20_Case /\ ~call.pre.is_on /\ WritesOf(<<52, 0>>) # {}

(***************************************************************************)
(* C19: for every payload of 1 to 10 bytes the packet written is           *)
(* [0xFE,0xEF,0x0A,len+7,0xAB,0xAA,len+2] ++ payload ++                    *)
(* [checksum,0x55,0x0D,0x0A], the checksum being the XOR of len+2 with     *)
(* every payload byte; the XOR-fold recomputed from the emitted packet's   *)
(* length byte and payload is the emitted checksum byte.                   *)
(***************************************************************************)
\* the XOR of seed with every byte: bit i is the parity of the bits i
XorFold(seed, bytes) ==
    LET bit(x, i) == (x \div (2 ^ i)) % 2
        ones(i) == Cardinality({k \in DOMAIN bytes : bit(bytes[k], i) = 1})
        parity(i) == (bit(seed, i) + ones(i)) % 2
    IN  parity(0) + 2 * parity(1) + 4 * parity(2) + 8 * parity(3)
            + 16 * parity(4) + 32 * parity(5) + 64 * parity(6) + 128 * parity(7)

\* the checksum byte of an emitted packet is the fold over what the packet holds
Rederived(pkt) ==
    LET n == pkt[7] - 2
    IN  /\ Len(pkt) = n + 11
        /\ pkt[8 + n] = XorFold(pkt[7], SubSeq(pkt, 8, 7 + n))

C19_Case == Completed("sendPacket") /\ Len(call.arg) \in 1..MaxPayloadLen

C19_PacketLayout ==
    /\ C19_Case =>
          LET payload == call.arg
              len == Len(payload)
              pkt == trace[Len(trace)].pkt
          IN  /\ trace # <<>> /\ trace[Len(trace)].ev = "write"
              /\ pkt = <<254, 239, 10, len + 7, 171, 170, len + 2>> \o payload
                          \o <<XorFold(len + 2, payload), 85, 13, 10>>
    /\ \A i \in EventsOf({"write"}) : Rederived(trace[i].pkt)

\* a 10-byte payload was framed and written
C19_Witness ==
    /\ C19_Case /\ Len(call.arg) = 10
    /\ EventsOf({"write"}) # {}
    /\ Len(trace[Len(trace)].pkt) = 21

(***************************************************************************)
(* C11: TurnOff followed by TurnOn while mode = White: TurnOn writes the   *)
(* white mode-select packet (0x37,0x01) and status queries only, no effect *)
(* (0x34), color (0x32) or brightness (0x31) packet, and afterwards        *)
(* white_on = true, color_on = false, power_on = true.                     *)
(***************************************************************************)
\* the call made k calls or notifications before the current one
Earlier(k) == hist.calls[NCalls - k]

C11_Case ==
    /\ Completed("turn_on") /\ HealthyLink
    /\ NCalls > 1 /\ Earlier(1).op = "turn_off"
    /\ call.pre.mode = COLOR_MODE_WHITE

C11_WhiteTurnOnSelectsOnly ==
    C11_Case =>
        /\ WritesOf(<<55, 1>>) # {}
        /\ \A i \in EventsOf({"write"}) :
              Payload(trace[i].pkt) \in {<<55, 1>>, <<48, 1>>, <<48, 2>>}
        /\ light_on /\ ~color_on /\ is_on

\* TurnOn completed right after a TurnOff, in White mode, the select written
C11_Witness ==
    C11_Case /\ ~call.pre.is_on /\ WritesOf(<<55, 1>>) # {} /\ light_on

(***************************************************************************)
(* C12: after SetColorBrightness(b) on a lamp that is on in Color mode,    *)
(* then TurnOff, whose status refresh is answered by a color status        *)
(* reporting off, then TurnOn: the brightness packet written in the        *)
(* restore sequence encodes b, not the default.                            *)
(***************************************************************************)
\* a color status (reply_version 2) that reports the color light off
ReportsColorOff(c) ==
    /\ c.op = "notification_handler"
    /\ Len(c.arg) >= 10 /\ Byte(c.arg, 8) = 2 /\ Byte(c.arg, 9) # 1

C12_Case ==
    /\ Completed("turn_on") /\ HealthyLink
    /\ NCalls > 3
    /\ ReportsColorOff(Earlier(1))
    /\ Earlier(2).op = "turn_off"
    /\ Earlier(3).op = "set_color_brightness"
    /\ Earlier(3).pre.is_on /\ Earlier(3).pre.color_on

C12_RestoreReplaysBrightness ==
    C12_Case =>
        /\ WritesOf(<<49, 2, Percent(Level(Earlier(3).arg))>>) # {}
        /\ \A i \in EventsOf({"write"}) :
              LET p == Payload(trace[i].pkt)
              IN  (p[1] = 49 /\ p[2] = 2) => p[3] = Percent(Level(Earlier(3).arg))

(***************************************************************************)
(* C24: handling one notification fires the change callback exactly once   *)
(* if the handling changed at least one externally observable DeviceState  *)
(* field (power_on, mode, white brightness, color brightness, rgb, effect) *)
(* and not at all otherwise.                                               *)
(***************************************************************************)
\* the externally observable fields of a DeviceState
Observable(d) ==
    <<d.is_on, d.mode, d.brightness, d.color_brightness, d.rgb_color, d.effect>>

\* a status notification (not the shutdown) has just been handled
C24_Case ==
    Handled /\ ~(Len(LastCall.arg) >= 9 /\ Byte(LastCall.arg, 8) = 0)

C24_CallbackIffObservableChange ==
    C24_Case =>
        fired = (IF Observable(Snapshot(St)) # Observable(LastCall.pre)
                 THEN 1 ELSE 0)

(***************************************************************************)
(* C27: in every reachable state the stored effect is a member of the      *)
(* fixed effect catalog, after any sequence of SetEffect calls (with any   *)
(* name) and notifications (with any effect index byte).                   *)
(***************************************************************************)
C27_EffectInCatalog == InCatalog(effect)

(***************************************************************************)
(* C28: in every reachable state white_brightness and color_brightness are *)
(* each either absent or an integer in 0..255, for status notifications    *)
(* carrying any percent byte 0..255.                                       *)
(***************************************************************************)
C28_BrightnessInRange ==
    /\ brightness = None \/ brightness \in 0..255
    /\ color_brightness = None \/ color_brightness \in 0..255

(***************************************************************************)
(* C21: if any step of EnsureConnected fails the call returns failure and  *)
(* on return the transport session is closed; whenever the call returns    *)
(* success the connection is Ready: the session is open, both              *)
(* characteristics are bound and notifications are subscribed.             *)
(***************************************************************************)
C21_ConnectContract ==
    cret.seen =>
        IF cret.ok
        THEN /\ cret.is_connected /\ cret.notifying
             /\ cret.write_uuid # NoUuid /\ cret.read_uuid # NoUuid
        ELSE ~cret.is_connected

(***************************************************************************)
(* C22: after every path to Disconnected the write and notify              *)
(* characteristic bindings are cleared, and the next EnsureConnected binds *)
(* both in the new session before it subscribes or writes.                 *)
(***************************************************************************)
C22_BindingsClearedWhenDisconnected ==
    /\ ~is_connected => write_uuid = NoUuid /\ read_uuid = NoUuid
    /\ \A t \in Tasks :
           is_connected /\ (Waiting(t, "start_notify") \/ Waiting(t, "write"))
               => write_uuid \in services /\ read_uuid \in services

(***************************************************************************)
(* C25: the connection manager never retries on its own: one invocation of *)
(* connect performs at most one transport-level connect attempt, also when *)
(* the link drops between the successful connect and the initial status    *)
(* refresh.                                                                *)
(***************************************************************************)
\* the activations of connect on task t's stack
ConnectFrames(t) == {i \in 1..Len(stack[t]) : stack[t][i].fn = "connect"}

C25_OneConnectAttempt ==
    \A t \in Tasks :
        Waiting(t, "connect") => Cardinality(ConnectFrames(t)) <= 1

(***************************************************************************)
(* C29: whenever a command or a notification handler has completed and the *)
(* transport session is not connected, power_on, white_on and color_on are *)
(* all false.                                                              *)
(***************************************************************************)
Quiescent == \A t \in Tasks : Len(stack[t]) = 0

C23_Case == phase = "done" /\ HealthyLink /\ Len(stack["hnd"]) = 0

\* the packet that carries the command itself
OwnPackets ==
    CASE call.op = "turn_off" -> {<<53, 1>>}
      [] call.op = "turn_on" -> {<<55, 1>>, <<55, 2>>}
      [] OTHER -> {<<48, 1>>}

\* the session was opened, then subscribed, before anything was written
ConnectedFirst ==
    \E c \in EventsOf({"connect_ok"}), n \in EventsOf({"subscribe"}) :
        /\ c < n
        /\ \A w \in EventsOf({"write"}) : n < w

C23_ReusableAfterFailures ==
    C23_Case =>
        /\ is_connected /\ notifying
        /\ write_uuid \in services /\ read_uuid \in services
        /\ \E p \in OwnPackets : WritesOf(p) # {}
        /\ WritesOf(<<48, 1>>) # {} /\ WritesOf(<<48, 2>>) # {}
        /\ ~call.pre.is_connected => ConnectedFirst

\* the second command found the session closed by a failure and completed
C23_Witness ==
    /\ C23_Case /\ ncmd = 2 /\ nevents > 0
    /\ ~call.pre.is_connected /\ call.op = "turn_off"

(***************************************************************************)
(* C26: connect ordering: within one connection, notifications are         *)
(* subscribed only after both characteristics have been bound in that      *)
(* connection, and no command or status packet is written before the       *)
(* subscription; if either characteristic is absent, no subscription and   *)
(* no write happens and the session is closed.                             *)
(***************************************************************************)
\* the positions of the sessions opened before position j of the trace
OpenedBefore(j) == {c \in EventsOf({"connect_ok"}) : c < j}

\* position j follows a subscription made in the session last opened
SubscribedBefore(j) ==
    \E n \in EventsOf({"subscribe"}) :
        n < j /\ \A c \in OpenedBefore(j) : c < n

C26_ConnectOrdering ==
    /\ notifying =>
           is_connected /\ write_uuid \in services /\ read_uuid \in services
    /\ \A j \in EventsOf({"write"}) :
           OpenedBefore(j) # {} => SubscribedBefore(j)
    /\ \A t \in Tasks :
           Waiting(t, "write") /\ is_connected /\ ~notifying
               => Len(stack["hnd"]) > 0
    /\ is_connected /\ ~(AllServices \subseteq services) =>
           /\ ~notifying
           /\ \A t \in Tasks :
                  ~Waiting(t, "start_notify") /\ ~Waiting(t, "write")
    /\ cret.seen /\ ~cret.ok => ~cret.is_connected

\* one command met a session without a characteristic, which was closed
\* unsubscribed and unwritten, and then a complete one
C26_Witness ==
    /\ phase = "done"
    /\ \E c \in EventsOf({"connect_ok"}) :
           /\ c < Len(trace) /\ trace[c + 1].ev = "closed"
           /\ \E d \in EventsOf({"connect_ok"}), n \in EventsOf({"subscribe"}),
                 w \in EventsOf({"write"}) : c < d /\ d < n /\ n < w

====
